---------------------------- MODULE Spec2Model ----------------------------
(***************************************************************************)
(* Model of the Aadhaar verification service: the matching and scoring     *)
(* engine of utils.py and the upload/process handlers of app.py.           *)
(*                                                                         *)
(* Text is a sequence of one-character strings.  The pure functions of     *)
(* utils.py are operators; one specification per group of functions draws  *)
(* the arguments in its initial states and its actions apply the           *)
(* function, leaving the call in op/arg1/arg2/ret.                         *)
(***************************************************************************)
EXTENDS Integers, Sequences, FiniteSets, TLC

VARIABLES
    op,          \* the function that was called ("idle" before the call)
    arg1,        \* its first argument
    arg2,        \* its second argument
    ret,         \* what it returned
    folder,      \* uploads/<batch_id>/ of every batch: what is on disk
    last_batch,  \* uploads/last_batch.txt: a batch id, or 0 for no file
    upload,      \* the /upload request of every batch: where its handler is
    process,     \* the /process request of every batch: where its handler is
    db           \* users_collection: the records inserted

callvars == <<op, arg1, arg2, ret>>

appvars == <<folder, last_batch, upload, process, db>>

vars == <<op, arg1, arg2, ret, folder, last_batch, upload, process, db>>

(***************************************************************************)
(* app.py: the state of the service before any request.                    *)
(***************************************************************************)

\* This many /upload requests are made; each makes a batch (uuid.uuid4()).
MaxBatches == 2

\* Every archive holds this many images, each an Aadhaar card.
MaxDocs == 2

Batches == 1..MaxBatches

Docs == 1..MaxDocs

\* A batch folder that is not on disk.
NoFolder == [exists |-> FALSE, zip |-> FALSE, excel |-> FALSE, images |-> {}]

\* os.makedirs(UPLOAD_FOLDER, exist_ok=True) at import: no batch, no request.
InitApp ==
    /\ folder = [b \in Batches |-> NoFolder]
    /\ last_batch = 0
    /\ upload = [b \in Batches |-> [pc |-> "new", listing |-> {}]]
    /\ process = [b \in Batches |-> [pc |-> "new", todo |-> <<>>, results |-> {}]]
    /\ db = {}

(***************************************************************************)
(* Characters.                                                             *)
(***************************************************************************)

\* string.punctuation (utils.py imports string): the ASCII punctuation marks
\* (the grave accent, which the module's lexer does not take in a string, is
\* left out; no text of the model holds it).
Punctuation ==
    {"!", "\"", "#", "$", "%", "&", "'", "(", ")", "*", "+", ",", "-", ".",
     "/", ":", ";", "<", "=", ">", "?", "@", "[", "\\", "]", "^", "_",
     "{", "|", "}", "~"}

\* What the regular expression \s and str.split()/str.strip() treat as white space.
Whitespace == {" ", "\t", "\n", "\r", "\f"}

\* What the regular expression \d matches.
Digits == {"0", "1", "2", "3", "4", "5", "6", "7", "8", "9"}

UpperLetters ==
    <<"A", "B", "C", "D", "E", "F", "G", "H", "I", "J", "K", "L", "M",
      "N", "O", "P", "Q", "R", "S", "T", "U", "V", "W", "X", "Y", "Z">>

LowerLetters ==
    <<"a", "b", "c", "d", "e", "f", "g", "h", "i", "j", "k", "l", "m",
      "n", "o", "p", "q", "r", "s", "t", "u", "v", "w", "x", "y", "z">>

\* str.lower() on one character.
lower_char(c) ==
    IF \E i \in 1..26 : UpperLetters[i] = c
    THEN LowerLetters[CHOOSE i \in 1..26 : UpperLetters[i] = c]
    ELSE c

\* str.lower()
lower(s) == [i \in 1..Len(s) |-> lower_char(s[i])]

\* str.translate(str.maketrans('', '', string.punctuation))
remove_punctuation(s) == SelectSeq(s, LAMBDA c : c \notin Punctuation)

\* re.sub(r'\s+', ' ', s): every maximal run of white space becomes one space.
collapse_whitespace(s) ==
    LET keep == SelectSeq([i \in 1..Len(s) |-> i],
                          LAMBDA i : ~(s[i] \in Whitespace /\ i > 1
                                       /\ s[i - 1] \in Whitespace))
    IN  [k \in 1..Len(keep) |->
            IF s[keep[k]] \in Whitespace THEN " " ELSE s[keep[k]]]

\* str.strip()
strip(s) ==
    LET ink == {i \in 1..Len(s) : s[i] \notin Whitespace}
    IN  IF ink = {} THEN <<>>
        ELSE LET lo == CHOOSE i \in ink : \A j \in ink : i <= j
                 hi == CHOOSE i \in ink : \A j \in ink : i >= j
             IN  SubSeq(s, lo, hi)

\* str.replace(" ", "")
remove_spaces(s) == SelectSeq(s, LAMBDA c : c # " ")

\* str.split(): the maximal runs of characters that are not white space.
RECURSIVE split(_)
split(s) ==
    LET t == strip(s)
    IN  IF t = <<>> THEN <<>>
        ELSE LET ws == {i \in 1..Len(t) : t[i] \in Whitespace}
             IN  IF ws = {} THEN <<t>>
                 ELSE LET cut == CHOOSE i \in ws : \A j \in ws : i <= j
                      IN  <<SubSeq(t, 1, cut - 1)>>
                              \o split(SubSeq(t, cut + 1, Len(t)))

\* ' '.join(words)
RECURSIVE join(_)
join(words) ==
    IF words = <<>> THEN <<>>
    ELSE IF Len(words) = 1 THEN words[1]
    ELSE words[1] \o <<" ">> \o join(Tail(words))

\* Concatenation of a sequence of texts.
RECURSIVE concat(_)
concat(pieces) ==
    IF pieces = <<>> THEN <<>> ELSE pieces[1] \o concat(Tail(pieces))

\* The elements of a sequence.
Range(s) == {s[i] : i \in 1..Len(s)}

(***************************************************************************)
(* utils.py: normalization.                                                *)
(***************************************************************************)

\* normalize_text with the white space collapsed before the punctuation is removed.
normalize_text_collapse_first(text) ==
    IF text = <<>> THEN <<>>
    ELSE lower(remove_punctuation(strip(collapse_whitespace(text))))

normalize_text(text) ==
    IF text = <<>> THEN <<>>
    ELSE strip(collapse_whitespace(lower(remove_punctuation(text))))

ADDRESS_TERMS_TO_IGNORE ==
    { <<"r","o","a","d">>, <<"s","t","r","e","e","t">>, <<"l","a","n","e">>,
      <<"m","a","r","g">>, <<"n","a","g","a","r">>,
      <<"c","o","l","o","n","y">>, <<"t","o","w","n","s","h","i","p">>,
      <<"a","p","a","r","t","m","e","n","t">>, <<"f","l","a","t">>,
      <<"s","e","c","t","o","r">>, <<"b","l","o","c","k">>,
      <<"p","h","a","s","e">>, <<"d","i","s","t","r","i","c","t">>,
      <<"a","r","e","a">>, <<"n","e","a","r">>,
      <<"b","e","h","i","n","d">>, <<"o","p","p","o","s","i","t","e">>,
      <<"b","e","s","i","d","e">>, <<"n","e","x","t"," ","t","o">>,
      <<"a","c","r","o","s","s"," ","f","r","o","m">> }

normalize_address(address) ==
    IF address = <<>> THEN <<>>
    ELSE LET a1 == lower(address)
             a2 == remove_punctuation(a1)
             a3 == strip(collapse_whitespace(a2))
             words == split(a3)
             filtered_words ==
                 SelectSeq(words, LAMBDA w : lower(w) \notin ADDRESS_TERMS_TO_IGNORE)
         IN  join(filtered_words)

(***************************************************************************)
(* Specification SpecNorm: the normalizers on texts built from pieces.     *)
(***************************************************************************)

\* The longest text is this many pieces.
MaxPieces == 4

NormPieces ==
    { <<"a","r","e","a">>, <<"a","r">>, <<"e","a">>, <<"A">>,
      <<" ">>, <<"\t">>, <<".">> }

\* The concatenations of at most n pieces taken from P.
TextsOf(P, n) == { concat(ps) : ps \in UNION { [1..k -> P] : k \in 0..n } }

NormTexts == TextsOf(NormPieces, MaxPieces)

InitNorm ==
    /\ InitApp
    /\ op = "idle"
    /\ arg1 \in NormTexts
    /\ arg2 = <<>>
    /\ ret = <<>>

CallNormalizeText ==
    /\ op = "idle"
    /\ op' = "normalize_text"
    /\ ret' = normalize_text(arg1)
    /\ UNCHANGED <<arg1, arg2>>
    /\ UNCHANGED appvars

CallNormalizeAddress ==
    /\ op = "idle"
    /\ op' = "normalize_address"
    /\ ret' = normalize_address(arg1)
    /\ UNCHANGED <<arg1, arg2>>
    /\ UNCHANGED appvars

NextNorm == CallNormalizeText \/ CallNormalizeAddress

SpecNorm == InitNorm /\ [][NextNorm]_vars

\* The shape of a normalized text: lower case, no punctuation, no white space
\* at either end, no white space but single spaces.
IsNormalized(s) ==
    /\ \A i \in 1..Len(s) : /\ s[i] \notin Punctuation
                            /\ s[i] \notin Range(UpperLetters)
                            /\ s[i] \in Whitespace => s[i] = " "
    /\ Len(s) > 0 => s[1] # " " /\ s[Len(s)] # " "
    /\ \A i \in 1..(Len(s) - 1) : ~(s[i] = " " /\ s[i + 1] = " ")

\* C8: normalize_text and normalize_address are idempotent; their output is
\* lower case and has no punctuation, no white space at either end and no run
\* of white space longer than one, and normalize_address leaves no word of
\* the ignore vocabulary.
C8_NormalizeIdempotent ==
    /\ op = "normalize_text" =>
          /\ normalize_text(ret) = ret
          /\ IsNormalized(ret)
    /\ op = "normalize_address" =>
          /\ normalize_address(ret) = ret
          /\ IsNormalized(ret)
          /\ \A w \in Range(split(ret)) : w \notin ADDRESS_TERMS_TO_IGNORE

\* C8's case: an address that held punctuation, upper case, other white space
\* and an ignored word was normalized, and a word of it was left.
C8_Witness ==
    /\ op = "normalize_address"
    /\ ret # <<>>
    /\ ret # normalize_text(arg1)
    /\ \E i \in 1..Len(arg1) : arg1[i] \in Punctuation
    /\ \E i \in 1..Len(arg1) : arg1[i] = "\t"

(***************************************************************************)
(* utils.py: extract_pincode.                                              *)
(***************************************************************************)

\* The least element of a non-empty set of integers.
Min(S) == CHOOSE x \in S : \A y \in S : x <= y

\* The greatest element of a non-empty set of integers.
Max(S) == CHOOSE x \in S : \A y \in S : x >= y

\* re.search(r'(\d{6})', s): the leftmost place where six digits follow one
\* another, whatever comes before or after them.
search_six_digits(s) ==
    LET hits == {p \in 1..(Len(s) - 5) : \A k \in 0..5 : s[p + k] \in Digits}
    IN  IF hits = {} THEN <<>> ELSE SubSeq(s, Min(hits), Min(hits) + 5)

\* extract_pincode searching the address as it is, spaces and all.
extract_pincode_keep_spaces(address) ==
    IF address = <<>> THEN <<>> ELSE search_six_digits(address)

extract_pincode(address) ==
    IF address = <<>> THEN <<>>
    ELSE search_six_digits(remove_spaces(address))

(***************************************************************************)
(* Specification SpecPin: extract_pincode on texts built from pieces.      *)
(***************************************************************************)

PinPieces ==
    { <<"1">>, <<"2">>, <<"1","1","1">>, <<"2","2","2">>,
      <<" ">>, <<"\t">>, <<"a">> }

PinTexts == TextsOf(PinPieces, MaxPieces)

InitPin ==
    /\ InitApp
    /\ op = "idle"
    /\ arg1 \in PinTexts
    /\ arg2 = <<>>
    /\ ret = <<>>

CallExtractPincode ==
    /\ op = "idle"
    /\ op' = "extract_pincode"
    /\ ret' = extract_pincode(arg1)
    /\ UNCHANGED <<arg1, arg2>>
    /\ UNCHANGED appvars

NextPin == CallExtractPincode

SpecPin == InitPin /\ [][NextPin]_vars

\* The maximal runs of digits of s, each as <<first place, length>>.
DigitRuns(s) ==
    { <<p, n>> \in (1..Len(s)) \X (1..Len(s)) :
        /\ p + n - 1 <= Len(s)
        /\ \A k \in p..(p + n - 1) : s[k] \in Digits
        /\ p = 1 \/ s[p - 1] \notin Digits
        /\ p + n - 1 = Len(s) \/ s[p + n] \notin Digits }

\* The first six characters of the first of the runs rs of s, or the empty text.
FirstSixOf(s, rs) ==
    IF rs = {} THEN <<>>
    ELSE LET p == Min({r[1] : r \in rs}) IN SubSeq(s, p, p + 5)

remove_whitespace(s) == SelectSeq(s, LAMBDA c : c \notin Whitespace)

\* C9 as stated: extract_pincode removes the white space of the address and
\* returns the first run of exactly six digits of what is left, or the empty
\* text; digits of a longer run are never returned.
C9_ExactlySixAfterWhitespace ==
    op = "extract_pincode" =>
        LET s == remove_whitespace(arg1)
        IN  ret = FirstSixOf(s, {r \in DigitRuns(s) : r[2] = 6})

\* C9 amended: extract_pincode removes the space characters (and no other
\* white space) of the address and returns the first six digits of the first
\* run of six or more digits of what is left, or the empty text; the result
\* is empty or six digits.
C9_FirstSixOfLongRunAfterSpaces ==
    op = "extract_pincode" =>
        LET s == remove_spaces(arg1)
        IN  /\ ret = FirstSixOf(s, {r \in DigitRuns(s) : r[2] >= 6})
            /\ ret = <<>> \/ (Len(ret) = 6 /\ \A i \in 1..6 : ret[i] \in Digits)

\* C9's case: a pincode written with a space in it, after other text, was
\* found.
C9_Witness ==
    /\ op = "extract_pincode"
    /\ Len(ret) = 6
    /\ \E i \in 1..Len(arg1) : arg1[i] = " "
    /\ search_six_digits(arg1) = <<>>
    /\ \E i \in 1..Len(arg1) : arg1[i] = "a"

(***************************************************************************)
(* utils.py: similarity_ratio, that is difflib.SequenceMatcher(None, a,    *)
(* b).ratio() * 100.  Places are counted from 0 and ranges are half open,  *)
(* as in difflib; a[i] of difflib is a[i + 1] here.  No character is junk: *)
(* isjunk is None, and the automatic junk heuristic needs 200 characters.  *)
(* A number is kept exact, as <<numerator, denominator>>.                  *)
(***************************************************************************)

\* How far a from place i and b from place j agree, within a[..ahi), b[..bhi).
RECURSIVE common_run(_, _, _, _, _, _)
common_run(a, b, i, j, ahi, bhi) ==
    IF i >= ahi \/ j >= bhi THEN 0
    ELSE IF a[i + 1] # b[j + 1] THEN 0
    ELSE 1 + common_run(a, b, i + 1, j + 1, ahi, bhi)

\* SequenceMatcher.find_longest_match: <<i, j, k>> with a[i:i+k] = b[j:j+k],
\* k the greatest, then i the least, then j the least.
find_longest_match(a, b, alo, ahi, blo, bhi) ==
    LET places == (alo..(ahi - 1)) \X (blo..(bhi - 1))
        run == [p \in places |-> common_run(a, b, p[1], p[2], ahi, bhi)]
        bestsize == IF places = {} THEN 0 ELSE Max({run[p] : p \in places})
    IN  IF bestsize = 0 THEN <<alo, blo, 0>>
        ELSE LET best == {p \in places : run[p] = bestsize}
                 besti == Min({p[1] : p \in best})
                 bestj == Min({p[2] : p \in {q \in best : q[1] = besti}})
             IN  <<besti, bestj, bestsize>>

\* SequenceMatcher.get_matching_blocks, summed: the longest match, then the
\* same to its left and to its right.
RECURSIVE matching_characters(_, _, _, _, _, _)
matching_characters(a, b, alo, ahi, blo, bhi) ==
    LET m == find_longest_match(a, b, alo, ahi, blo, bhi)
        i == m[1]
        j == m[2]
        k == m[3]
    IN  IF k = 0 THEN 0
        ELSE k
             + (IF alo < i /\ blo < j
                THEN matching_characters(a, b, alo, i, blo, j) ELSE 0)
             + (IF i + k < ahi /\ j + k < bhi
                THEN matching_characters(a, b, i + k, ahi, j + k, bhi) ELSE 0)

\* similarity_ratio without the test for an empty argument.
similarity_ratio_no_guard(str1, str2) ==
    IF Len(str1) + Len(str2) = 0 THEN <<100, 1>>
    ELSE <<200 * matching_characters(str1, str2, 0, Len(str1), 0, Len(str2)),
           Len(str1) + Len(str2)>>

similarity_ratio(str1, str2) ==
    IF str1 = <<>> \/ str2 = <<>> THEN <<0, 1>>
    ELSE <<200 * matching_characters(str1, str2, 0, Len(str1), 0, Len(str2)),
           Len(str1) + Len(str2)>>

\* Two exact numbers are equal.
NumEq(x, y) == x[1] * y[2] = y[1] * x[2]

\* x >= y for two exact numbers (the denominators are positive).
NumGeq(x, y) == x[1] * y[2] >= y[1] * x[2]

(***************************************************************************)
(* Specification SpecSim: similarity_ratio on every pair of short texts.   *)
(***************************************************************************)

\* The longest text compared is this many characters.
MaxSimLen == 4

SimAlphabet == {"a", "b"}

SimTexts == UNION { [1..k -> SimAlphabet] : k \in 0..MaxSimLen }

InitSim ==
    /\ InitApp
    /\ op = "idle"
    /\ arg1 \in SimTexts
    /\ arg2 \in SimTexts
    /\ ret = <<0, 1>>

CallSimilarityRatio ==
    /\ op = "idle"
    /\ op' = "similarity_ratio"
    /\ ret' = similarity_ratio(arg1, arg2)
    /\ UNCHANGED <<arg1, arg2>>
    /\ UNCHANGED appvars

NextSim == CallSimilarityRatio

SpecSim == InitSim /\ [][NextSim]_vars

\* C6: similarity_ratio(x, y) = similarity_ratio(y, x) for all texts x and y.
C6_SimilaritySymmetric ==
    op = "similarity_ratio" => NumEq(ret, similarity_ratio(arg2, arg1))

\* C7 as stated: similarity_ratio(x, x) = 100 for every text x.
C7_SelfSimilarityAlways100 ==
    (op = "similarity_ratio" /\ arg1 = arg2) => NumEq(ret, <<100, 1>>)

\* C7 amended: similarity_ratio(x, x) = 100 for every text x that is not
\* empty, and similarity_ratio of the empty text with itself is 0.
C7_SelfSimilarity100UnlessEmpty ==
    (op = "similarity_ratio" /\ arg1 = arg2) =>
        IF arg1 = <<>> THEN NumEq(ret, <<0, 1>>) ELSE NumEq(ret, <<100, 1>>)

\* C7's case: a text of several different characters was compared with itself.
C7_Witness ==
    /\ op = "similarity_ratio"
    /\ arg1 = arg2
    /\ Len(arg1) = MaxSimLen
    /\ \E i \in 1..Len(arg1) : arg1[i] # arg1[1]

(***************************************************************************)
(* utils.py: name_match.                                                   *)
(***************************************************************************)

\* str.startswith
startswith(s, prefix) ==
    Len(prefix) <= Len(s) /\ SubSeq(s, 1, Len(prefix)) = prefix

\* One pair of zip(parts1, parts2) passes the loop of check_abbreviation.
abbreviation_pair(p1, p2) ==
    \/ Len(p1) = 1 /\ startswith(p2, p1)
    \/ Len(p2) = 1 /\ startswith(p1, p2)
    \/ p1 = p2

\* check_abbreviation without its test of the lengths: zip stops at the
\* shorter list.
check_abbreviation_no_length_test(parts1, parts2) ==
    \A i \in 1..Min({Len(parts1), Len(parts2)}) :
        abbreviation_pair(parts1[i], parts2[i])

check_abbreviation(parts1, parts2) ==
    IF Len(parts1) # Len(parts2) THEN FALSE
    ELSE \A i \in 1..Len(parts1) : abbreviation_pair(parts1[i], parts2[i])

check_without_middle(parts1, parts2) ==
    IF Len(parts1) < 2 \/ Len(parts2) < 2 THEN FALSE
    ELSE parts1[1] = parts2[1] /\ parts1[Len(parts1)] = parts2[Len(parts2)]

\* How many times x occurs in the sequence s.
Count(x, s) == Cardinality({i \in 1..Len(s) : s[i] = x})

\* sorted(parts1) == sorted(parts2): the same words, each as many times.
sorted_equal(parts1, parts2) ==
    /\ Len(parts1) = Len(parts2)
    /\ \A w \in Range(parts1) \cup Range(parts2) :
          Count(w, parts1) = Count(w, parts2)

name_match(input_name, extracted_name) ==
    IF input_name = <<>> \/ extracted_name = <<>> THEN FALSE
    ELSE
    LET norm_input == normalize_text(input_name)
        norm_extracted == normalize_text(extracted_name)
        input_parts == split(norm_input)
        extracted_parts == split(norm_extracted)
    IN  IF norm_input = norm_extracted THEN TRUE
        ELSE IF \/ check_abbreviation(input_parts, extracted_parts)
                \/ check_abbreviation(extracted_parts, input_parts) THEN TRUE
        ELSE IF \/ Len(input_parts) > 2
                   /\ check_without_middle(input_parts, extracted_parts)
                \/ Len(extracted_parts) > 2
                   /\ check_without_middle(extracted_parts, input_parts) THEN TRUE
        ELSE IF Len(input_parts) = 1
                /\ input_parts[1] \in Range(extracted_parts) THEN TRUE
        ELSE IF Len(extracted_parts) = 1
                /\ extracted_parts[1] \in Range(input_parts) THEN TRUE
        ELSE IF sorted_equal(input_parts, extracted_parts) THEN TRUE
        ELSE IF \/ \A part \in Range(input_parts) : part \in Range(extracted_parts)
                \/ \A part \in Range(extracted_parts) : part \in Range(input_parts)
             THEN TRUE
        ELSE FALSE

(***************************************************************************)
(* Specification SpecName: name_match on every pair of names of a few      *)
(* words.                                                                  *)
(***************************************************************************)

\* The longest name is this many words.
MaxNameWords == 3

\* An initial in upper case, a name it abbreviates, another initial, and a
\* word that is punctuation only.
NameWords == { <<"J">>, <<"j","o">>, <<"s">>, <<".">> }

NameTexts == { join(ws) : ws \in UNION { [1..k -> NameWords] : k \in 0..MaxNameWords } }

InitName ==
    /\ InitApp
    /\ op = "idle"
    /\ arg1 \in NameTexts
    /\ arg2 \in NameTexts
    /\ ret = FALSE

CallNameMatch ==
    /\ op = "idle"
    /\ op' = "name_match"
    /\ ret' = name_match(arg1, arg2)
    /\ UNCHANGED <<arg1, arg2>>
    /\ UNCHANGED appvars

NextName == CallNameMatch

SpecName == InitName /\ [][NextName]_vars

\* The six rules, each on its own, on the word sequences ta and tb.
RulePositionalAbbreviation(ta, tb) ==
    /\ Len(ta) = Len(tb)
    /\ \A i \in 1..Len(ta) :
          \/ ta[i] = tb[i]
          \/ Len(ta[i]) = 1 /\ startswith(tb[i], ta[i])
          \/ Len(tb[i]) = 1 /\ startswith(ta[i], tb[i])

RuleMiddleNameElision(ta, tb) ==
    \E pair \in {<<ta, tb>>, <<tb, ta>>} :
        LET longer == pair[1]
            other == pair[2]
        IN  /\ Len(longer) > 2
            /\ Len(other) > 0
            /\ other[1] = longer[1]
            /\ other[Len(other)] = longer[Len(longer)]

RuleSingleTokenContainment(ta, tb) ==
    \/ Len(ta) = 1 /\ \E i \in 1..Len(tb) : tb[i] = ta[1]
    \/ Len(tb) = 1 /\ \E i \in 1..Len(ta) : ta[i] = tb[1]

RuleSetEquivalence(ta, tb) ==
    \E perm \in [1..Len(ta) -> 1..Len(tb)] :
        /\ Len(ta) = Len(tb)
        /\ \A i, j \in 1..Len(ta) : perm[i] = perm[j] => i = j
        /\ \A i \in 1..Len(ta) : ta[i] = tb[perm[i]]

RuleSubsetContainment(ta, tb) ==
    Range(ta) \subseteq Range(tb) \/ Range(tb) \subseteq Range(ta)

\* C4: name_match is false when either name is empty, and otherwise true
\* exactly when one of the six rules holds of the normalized names and their
\* words: the order of the rules does not matter.
C4_NameMatchIsDisjunction ==
    op = "name_match" =>
        LET na == normalize_text(arg1)
            nb == normalize_text(arg2)
            ta == split(na)
            tb == split(nb)
        IN  ret = IF arg1 = <<>> \/ arg2 = <<>> THEN FALSE
                  ELSE \/ na = nb
                       \/ RulePositionalAbbreviation(ta, tb)
                       \/ RuleMiddleNameElision(ta, tb)
                       \/ RuleSingleTokenContainment(ta, tb)
                       \/ RuleSetEquivalence(ta, tb)
                       \/ RuleSubsetContainment(ta, tb)

\* C4's case: two names of two words matched by abbreviation alone.
C4_Witness ==
    /\ op = "name_match"
    /\ ret = TRUE
    /\ Len(split(normalize_text(arg1))) = 2
    /\ normalize_text(arg1) # normalize_text(arg2)
    /\ ~RuleSubsetContainment(split(normalize_text(arg1)), split(normalize_text(arg2)))
    /\ ~RuleMiddleNameElision(split(normalize_text(arg1)), split(normalize_text(arg2)))

(***************************************************************************)
(* utils.py: address_match.  The scores are exact numbers.                 *)
(***************************************************************************)

\* x + y for two exact numbers.
NumAdd(x, y) == <<x[1] * y[2] + y[1] * x[2], x[2] * y[2]>>

\* (tenths / 10) * x for an exact number x: 0.4 * x is NumTenths(4, x).
NumTenths(tenths, x) == <<tenths * x[1], 10 * x[2]>>

\* final_score with the weights of the branch without a pincode in both branches.
final_score_one_branch(pincode_score, similarity_score, parts_score) ==
    NumAdd(NumTenths(6, similarity_score), NumTenths(4, parts_score))

\* The part of address_match that weighs the three scores.
final_score(pincode_score, similarity_score, parts_score) ==
    IF pincode_score[1] > 0
    THEN NumAdd(NumAdd(NumTenths(4, pincode_score), NumTenths(4, similarity_score)),
                NumTenths(2, parts_score))
    ELSE NumAdd(NumTenths(6, similarity_score), NumTenths(4, parts_score))

address_match(input_address, extracted_address) ==
    IF input_address = <<>> \/ extracted_address = <<>> THEN FALSE
    ELSE
    LET input_pincode == extract_pincode(input_address)
        extracted_pincode == extract_pincode(extracted_address)
        pincode_score ==
            IF /\ input_pincode # <<>>
               /\ extracted_pincode # <<>>
               /\ input_pincode = extracted_pincode
            THEN <<100, 1>> ELSE <<0, 1>>
        norm_input == normalize_address(input_address)
        norm_extracted == normalize_address(extracted_address)
        similarity_score == similarity_ratio(norm_input, norm_extracted)
        input_parts == split(norm_input)
        extracted_parts == split(norm_extracted)
        significant_parts == SelectSeq(input_parts, LAMBDA part : Len(part) > 3)
        matches == Cardinality({i \in 1..Len(significant_parts) :
                                   significant_parts[i] \in Range(extracted_parts)})
        parts_score ==
            IF significant_parts # <<>>
            THEN <<100 * matches, Len(significant_parts)>> ELSE <<0, 1>>
    IN  NumGeq(final_score(pincode_score, similarity_score, parts_score), <<70, 1>>)

(***************************************************************************)
(* Specification SpecAddr: address_match on every pair of addresses of a   *)
(* few words.                                                              *)
(***************************************************************************)

\* The longest address is this many words.
MaxAddrWords == 2

\* A pincode, half a pincode, an ignored word with upper case and
\* punctuation, a long word and a short one.
AddrWords ==
    { <<"4","1","1","0","0","1">>, <<"4","1","1">>, <<"R","o","a","d",",">>,
      <<"a","b","c","d","e","f","g","h","i">>, <<"x">> }

AddrTexts == { join(ws) : ws \in UNION { [1..k -> AddrWords] : k \in 0..MaxAddrWords } }

InitAddr ==
    /\ InitApp
    /\ op = "idle"
    /\ arg1 \in AddrTexts
    /\ arg2 \in AddrTexts
    /\ ret = FALSE

CallAddressMatch ==
    /\ op = "idle"
    /\ op' = "address_match"
    /\ ret' = address_match(arg1, arg2)
    /\ UNCHANGED <<arg1, arg2>>
    /\ UNCHANGED appvars

NextAddr == CallAddressMatch

SpecAddr == InitAddr /\ [][NextAddr]_vars

\* The three scores of the reference address ref and the extracted address
\* ext, the two quotients as <<numerator, denominator>>.
PincodeScore(ref, ext) ==
    IF extract_pincode(ref) # <<>> /\ extract_pincode(ext) = extract_pincode(ref)
    THEN 100 ELSE 0

SimilarityScore(ref, ext) ==
    similarity_ratio(normalize_address(ref), normalize_address(ext))

PartsScore(ref, ext) ==
    LET rt == split(normalize_address(ref))
        et == split(normalize_address(ext))
        long == {i \in 1..Len(rt) : Len(rt[i]) > 3}
        found == {i \in long : \E j \in 1..Len(et) : et[j] = rt[i]}
    IN  IF long = {} THEN <<0, 1>>
        ELSE <<100 * Cardinality(found), Cardinality(long)>>

Returned(v) == [raised |-> FALSE, value |-> v]

Raised == [raised |-> TRUE, value |-> 0]

TextCell(t) == [kind |-> "text", text |-> t]

NaNCell == [kind |-> "nan", text |-> <<>>]

\* str(cell)
cell_str(cell) == IF cell.kind = "nan" THEN <<"n", "a", "n">> ELSE cell.text

\* name_match(row["Name"], extracted_data["name"]): a NaN cell passes the test
\* for empty names and fails in normalize_text, at text.translate.
name_match_cell(cell, extracted_name) ==
    IF cell.kind = "nan"
    THEN IF extracted_name = <<>> THEN Returned(FALSE) ELSE Raised
    ELSE Returned(name_match(cell.text, extracted_name))

\* address_match(row["Address"], extracted_data["address"]): a NaN cell passes
\* the test for empty addresses and fails in extract_pincode, at
\* address.replace.
address_match_cell(cell, extracted_address) ==
    IF cell.kind = "nan"
    THEN IF extracted_address = <<>> THEN Returned(FALSE) ELSE Raised
    ELSE Returned(address_match(cell.text, extracted_address))

\* The score with the division applied to the address score alone.
overall_score_precedence(name_matched, address_matched) ==
    (IF name_matched THEN 100 ELSE 0) + (IF address_matched THEN 100 ELSE 0) \div 2

\* name_score, address_score and overall_score of the loop body.
overall_score(name_matched, address_matched) ==
    LET name_score == IF name_matched THEN 100 ELSE 0
        address_score == IF address_matched THEN 100 ELSE 0
    IN  (name_score + address_score) \div 2

\* The body of the loop for one row whose UID matched.
score_row(row, extracted_data) ==
    LET name_matched == name_match_cell(row.Name, extracted_data["name"])
        address_matched == address_match_cell(row.Address, extracted_data["address"])
    IN  IF name_matched.raised THEN Raised
        ELSE IF address_matched.raised THEN Raised
        ELSE Returned(overall_score(name_matched.value, address_matched.value))

\* The loop without its return: the last row whose UID matches decides.
scan_rows_last_match(rows, index, extracted_uid, extracted_data) ==
    LET matching == {i \in index..Len(rows) :
                        remove_spaces(cell_str(rows[i].UID)) = extracted_uid}
    IN  IF matching = {} THEN Returned(0)
        ELSE score_row(rows[Max(matching)], extracted_data)

\* for index, row in df.iterrows(): from row index on; 0 after the last row.
RECURSIVE scan_rows(_, _, _, _)
scan_rows(rows, index, extracted_uid, extracted_data) ==
    IF index > Len(rows) THEN Returned(0)
    ELSE LET db_uid == remove_spaces(cell_str(rows[index].UID))
         IN  IF db_uid = extracted_uid
             THEN score_row(rows[index], extracted_data)
             ELSE scan_rows(rows, index + 1, extracted_uid, extracted_data)

required_columns == {"UID", "Name", "Address"}

\* The try block of calculate_match_score.
match_score_body(extracted_data, excel_file) ==
    IF ~({"name", "uid", "address"} \subseteq DOMAIN extracted_data)
    THEN Returned(0)
    ELSE IF excel_file.kind = "absent" THEN Returned(0)
    ELSE IF excel_file.kind = "unreadable" THEN Raised
    ELSE IF ~(required_columns \subseteq excel_file.columns) THEN Returned(0)
    ELSE IF extracted_data["uid"] = <<>> THEN Returned(0)
    ELSE scan_rows(excel_file.rows, 1, remove_spaces(extracted_data["uid"]),
                   extracted_data)

\* calculate_match_score without its except clause.
calculate_match_score_no_except(extracted_data, excel_file) ==
    match_score_body(extracted_data, excel_file)

calculate_match_score(extracted_data, excel_file) ==
    LET outcome == match_score_body(extracted_data, excel_file)
    IN  IF outcome.raised THEN Returned(0) ELSE outcome

(***************************************************************************)
(* Specification SpecScore: calculate_match_score on small extracted       *)
(* identities and small reference tables.                                  *)
(***************************************************************************)

\* The longest reference table is this many rows.
MaxRows == 2

UidTab == <<"1", "\t", "2">>

ExtractedUids == { <<>>, <<"1", "2">>, UidTab }

ExtractedNames == { <<>>, <<"j", " ", "s">> }

ExtractedAddresses == { <<>>, <<"p","u","n","e"," ","4","1","1","0","0","1">> }

\* The extracted identities: every field there, or the address key missing.
ExtractedData ==
    { [name |-> n, uid |-> u, address |-> a] :
        n \in ExtractedNames, u \in ExtractedUids, a \in ExtractedAddresses }
    \cup { [name |-> <<"j", " ", "s">>, uid |-> <<"1", "2">>] }

ReferenceUids == { TextCell(<<"1", " ", "2">>), TextCell(<<"2", "1">>) }

ReferenceNames == { TextCell(<<"J", " ", "s">>), TextCell(<<"j", "o">>), NaNCell }

ReferenceAddresses ==
    { TextCell(<<"P","u","n","e",","," ","4","1","1"," ","0","0","1">>),
      TextCell(<<"m", "g">>), NaNCell }

ReferenceRows ==
    { [UID |-> u, Name |-> n, Address |-> a] :
        u \in ReferenceUids, n \in ReferenceNames, a \in ReferenceAddresses }

ExcelFiles ==
    { [kind |-> "absent", columns |-> {}, rows |-> <<>>],
      [kind |-> "unreadable", columns |-> {}, rows |-> <<>>] }
    \cup { [kind |-> "table", columns |-> c, rows |-> r] :
             c \in {required_columns, {"UID", "Name"}},
             r \in UNION { [1..k -> ReferenceRows] : k \in 0..MaxRows } }

InitScore ==
    /\ InitApp
    /\ op = "idle"
    /\ arg1 \in ExtractedData
    /\ arg2 \in ExcelFiles
    /\ ret = Returned(0)

CallCalculateMatchScore ==
    /\ op = "idle"
    /\ op' = "calculate_match_score"
    /\ ret' = calculate_match_score(arg1, arg2)
    /\ UNCHANGED <<arg1, arg2>>
    /\ UNCHANGED appvars

NextScore == CallCalculateMatchScore

SpecScore == InitScore /\ [][NextScore]_vars

\* The call reaches the loop over the rows: the identity has its three
\* fields and an identifier, and the file is a table with its three columns.
Scorable(ext, excel) ==
    /\ {"name", "uid", "address"} \subseteq DOMAIN ext
    /\ ext["uid"] # <<>>
    /\ excel.kind = "table"
    /\ required_columns \subseteq excel.columns

\* The rows whose identifier equals the extracted one, both without spaces.
RowsEqualWithoutSpaces(ext, excel) ==
    { i \in 1..Len(excel.rows) :
        remove_spaces(cell_str(excel.rows[i].UID)) = remove_spaces(ext["uid"]) }

\* The rows whose identifier equals the extracted one, both without white space.
RowsEqualWithoutWhitespace(ext, excel) ==
    { i \in 1..Len(excel.rows) :
        remove_whitespace(cell_str(excel.rows[i].UID))
            = remove_whitespace(ext["uid"]) }

\* Both matchers can be asked about the row: its name and address are texts.
RowIsText(row) == row.Name.kind = "text" /\ row.Address.kind = "text"

\* (name_score + address_score) / 2 of a row of texts.
RowScore(row, ext) ==
    LET n == name_match(row.Name.text, ext["name"])
        a == address_match(row.Address.text, ext["address"])
    IN  IF n /\ a THEN 100 ELSE IF n \/ a THEN 50 ELSE 0

\* C1: when the identifier resolves to a reference record (of texts), the
\* score is (name_score + address_score) / 2: 100 when name and address both
\* match, 50 when exactly one does, 0 when neither does; and the score is
\* always 0, 50 or 100.
C1_ScoreIsMeanOfMatches ==
    op = "calculate_match_score" =>
        /\ ret.value \in {0, 50, 100}
        /\ \A k \in RowsEqualWithoutSpaces(arg1, arg2) :
              (/\ Scorable(arg1, arg2)
               /\ k = Min(RowsEqualWithoutSpaces(arg1, arg2))
               /\ RowIsText(arg2.rows[k]))
              => ret.value = RowScore(arg2.rows[k], arg1)

\* C1's case: the identifier resolved and exactly one of name and address
\* matched.
C1_Witness ==
    /\ op = "calculate_match_score"
    /\ Scorable(arg1, arg2)
    /\ RowsEqualWithoutSpaces(arg1, arg2) # {}
    /\ ret = Returned(50)
    /\ LET row == arg2.rows[Min(RowsEqualWithoutSpaces(arg1, arg2))]
       IN  /\ RowIsText(row)
           /\ ~name_match(row.Name.text, arg1["name"])
           /\ address_match(row.Address.text, arg1["address"])

\* What the row alone gives: its score, or 0 when a matcher fails on it.
RowAloneScore(row, ext) ==
    IF \/ row.Name.kind = "nan" /\ ext["name"] # <<>>
       \/ row.Address.kind = "nan" /\ ext["address"] # <<>>
    THEN 0
    ELSE LET n == row.Name.kind = "text" /\ name_match(row.Name.text, ext["name"])
             a == /\ row.Address.kind = "text"
                  /\ address_match(row.Address.text, ext["address"])
         IN  IF n /\ a THEN 100 ELSE IF n \/ a THEN 50 ELSE 0

\* C2 as stated: the first row whose identifier equals the extracted one,
\* both without white space, decides the score alone.
C2_FirstMatchWithoutWhitespace ==
    (op = "calculate_match_score" /\ Scorable(arg1, arg2)) =>
        \A k \in RowsEqualWithoutWhitespace(arg1, arg2) :
            k = Min(RowsEqualWithoutWhitespace(arg1, arg2))
            => ret.value = RowAloneScore(arg2.rows[k], arg1)

\* C2 amended: the first row whose identifier equals the extracted one, both
\* without their space characters (other white space is kept), decides the
\* score alone: the table cut after that row, and that row as the whole
\* table, give the same score.
C2_FirstMatchWithoutSpaces ==
    (op = "calculate_match_score" /\ Scorable(arg1, arg2)) =>
        \A k \in RowsEqualWithoutSpaces(arg1, arg2) :
            k = Min(RowsEqualWithoutSpaces(arg1, arg2))
            => /\ ret.value = RowAloneScore(arg2.rows[k], arg1)
               /\ ret = calculate_match_score(
                            arg1, [arg2 EXCEPT !.rows = SubSeq(arg2.rows, 1, k)])
               /\ ret = calculate_match_score(
                            arg1, [arg2 EXCEPT !.rows = <<arg2.rows[k]>>])

\* C2's case: two rows have the identifier, they score differently, and the
\* first decided.
C2_Witness ==
    /\ op = "calculate_match_score"
    /\ Scorable(arg1, arg2)
    /\ Cardinality(RowsEqualWithoutSpaces(arg1, arg2)) = 2
    /\ ret = Returned(100)
    /\ RowAloneScore(arg2.rows[Max(RowsEqualWithoutSpaces(arg1, arg2))], arg1) = 0
    /\ arg1["uid"] # cell_str(arg2.rows[1].UID)

\* C3: calculate_match_score always returns and never raises; it returns 0
\* when the extracted identifier is empty, when no row has the identifier
\* (white space apart), when a field of the identity or a column of the
\* table is missing, when the file is absent, and when a matcher fails.
C3_TotalAndZeroOnFailure ==
    op = "calculate_match_score" =>
        /\ ret.raised = FALSE
        /\ ret.value \in {0, 50, 100}
        /\ ~({"name", "uid", "address"} \subseteq DOMAIN arg1) => ret.value = 0
        /\ arg2.kind # "table" => ret.value = 0
        /\ ~(required_columns \subseteq arg2.columns) => ret.value = 0
        /\ ("uid" \in DOMAIN arg1 /\ arg1["uid"] = <<>>) => ret.value = 0
        /\ ("uid" \in DOMAIN arg1 /\ RowsEqualWithoutWhitespace(arg1, arg2) = {})
              => ret.value = 0
        /\ match_score_body(arg1, arg2).raised => ret.value = 0

\* C3's case: the identifier resolved to a row whose name cell is no text, the
\* name matcher failed on it, and 0 was returned.
C3_Witness ==
    /\ op = "calculate_match_score"
    /\ Scorable(arg1, arg2)
    /\ RowsEqualWithoutSpaces(arg1, arg2) # {}
    /\ arg2.rows[Min(RowsEqualWithoutSpaces(arg1, arg2))].Name.kind = "nan"
    /\ match_score_body(arg1, arg2).raised
    /\ ret = Returned(0)

(***************************************************************************)
(* app.py: the /upload and /process handlers.  The development server      *)
(* (app.run) serves every request in a thread of its own, so the handlers  *)
(* interleave at their file operations; one action is one file operation   *)
(* (shutil.rmtree of one folder is taken as one step).  The request of     *)
(* batch b is the /upload that draws b as its batch_id, and the /process   *)
(* sent with the paths that /upload returned.                              *)
(***************************************************************************)

\* upload_files: "zip_file" or "excel_file" is not in request.files: 400.
UploadRejected(b) ==
    /\ upload[b].pc = "new"
    /\ upload' = [upload EXCEPT ![b].pc = "rejected"]
    /\ UNCHANGED <<folder, last_batch, process, db>>
    /\ UNCHANGED callvars

\* clean_uploads_folder: os.listdir(UPLOAD_FOLDER).
UploadListDir(b) ==
    /\ upload[b].pc = "new"
    /\ upload' = [upload EXCEPT ![b] =
                     [pc |-> "cleaning", listing |-> {x \in Batches : folder[x].exists}]]
    /\ UNCHANGED <<folder, last_batch, process, db>>
    /\ UNCHANGED callvars

\* clean_uploads_folder: one turn of the loop: an item that is (still) a
\* directory is removed with all it holds.
UploadRemoveTree(b) ==
    /\ upload[b].pc = "cleaning"
    /\ \E x \in upload[b].listing :
          /\ upload' = [upload EXCEPT ![b].listing = @ \ {x}]
          /\ folder' = IF folder[x].exists
                       THEN [folder EXCEPT ![x] = NoFolder]
                       ELSE folder
    /\ UNCHANGED <<last_batch, process, db>>
    /\ UNCHANGED callvars

\* upload_files: batch_id = str(uuid.uuid4()); os.makedirs(batch_folder).
UploadMakeDirs(b) ==
    /\ upload[b].pc = "cleaning"
    /\ upload[b].listing = {}
    /\ folder' = [folder EXCEPT ![b].exists = TRUE]
    /\ upload' = [upload EXCEPT ![b].pc = "save_zip"]
    /\ UNCHANGED <<last_batch, process, db>>
    /\ UNCHANGED callvars

\* upload_files: zip_file.save(zip_path); it raises when the folder is gone.
UploadSaveZip(b) ==
    /\ upload[b].pc = "save_zip"
    /\ IF folder[b].exists
       THEN /\ folder' = [folder EXCEPT ![b].zip = TRUE]
            /\ upload' = [upload EXCEPT ![b].pc = "save_excel"]
       ELSE /\ upload' = [upload EXCEPT ![b].pc = "failed"]
            /\ UNCHANGED folder
    /\ UNCHANGED <<last_batch, process, db>>
    /\ UNCHANGED callvars

\* upload_files: excel_file.save(excel_path); it raises when the folder is gone.
UploadSaveExcel(b) ==
    /\ upload[b].pc = "save_excel"
    /\ IF folder[b].exists
       THEN /\ folder' = [folder EXCEPT ![b].excel = TRUE]
            /\ upload' = [upload EXCEPT ![b].pc = "write_last"]
       ELSE /\ upload' = [upload EXCEPT ![b].pc = "failed"]
            /\ UNCHANGED folder
    /\ UNCHANGED <<last_batch, process, db>>
    /\ UNCHANGED callvars

\* upload_files: last_batch.txt is written and the two paths are returned.
UploadReturn(b) ==
    /\ upload[b].pc = "write_last"
    /\ last_batch' = b
    /\ upload' = [upload EXCEPT ![b].pc = "done"]
    /\ UNCHANGED <<folder, process, db>>
    /\ UNCHANGED callvars

\* process_data: zip_path or excel_path is missing from the request: 400.
ProcessRejected(b) ==
    /\ process[b].pc = "new"
    /\ process' = [process EXCEPT ![b].pc = "rejected"]
    /\ UNCHANGED <<folder, last_batch, upload, db>>
    /\ UNCHANGED callvars

\* process_data: extract_zip(zip_path, batch folder), sent with the paths
\* /upload returned.  zipfile.ZipFile raises when the archive is gone, and
\* the handler answers 500.
ProcessExtractZip(b) ==
    /\ upload[b].pc = "done"
    /\ process[b].pc = "new"
    /\ IF folder[b].exists /\ folder[b].zip
       THEN /\ folder' = [folder EXCEPT ![b].images = Docs]
            /\ process' = [process EXCEPT ![b] =
                  [pc |-> "loop", todo |-> [i \in 1..MaxDocs |-> i], results |-> {}]]
       ELSE /\ process' = [process EXCEPT ![b].pc = "failed"]
            /\ UNCHANGED folder
    /\ UNCHANGED <<last_batch, upload, db>>
    /\ UNCHANGED callvars

\* process_data: one turn of the loop over the images.  is_aadhar_card
\* returns False for an image that is gone (its except clause), and the image
\* is skipped; calculate_match_score returns 0 without reading any reference
\* when the Excel file is gone.
ProcessImage(b) ==
    /\ process[b].pc = "loop"
    /\ process[b].todo # <<>>
    /\ LET image == Head(process[b].todo)
           is_aadhar_card == folder[b].exists /\ image \in folder[b].images
           scored == folder[b].exists /\ folder[b].excel
       IN  process' = [process EXCEPT
               ![b].todo = Tail(@),
               ![b].results = IF is_aadhar_card
                              THEN @ \cup {[doc |-> image, scored |-> scored]}
                              ELSE @]
    /\ UNCHANGED <<folder, last_batch, upload, db>>
    /\ UNCHANGED callvars

\* process_data: users_collection.insert_many(bulk_insert), and the results
\* are returned.
ProcessReturn(b) ==
    /\ process[b].pc = "loop"
    /\ process[b].todo = <<>>
    /\ db' = db \cup {[batch_id |-> b, doc |-> r.doc, scored |-> r.scored] :
                        r \in process[b].results}
    /\ process' = [process EXCEPT ![b].pc = "done"]
    /\ UNCHANGED <<folder, last_batch, upload>>
    /\ UNCHANGED callvars

NextApp ==
    \E b \in Batches :
        \/ UploadRejected(b)
        \/ UploadListDir(b)
        \/ UploadRemoveTree(b)
        \/ UploadMakeDirs(b)
        \/ UploadSaveZip(b)
        \/ UploadSaveExcel(b)
        \/ UploadReturn(b)
        \/ ProcessRejected(b)
        \/ ProcessExtractZip(b)
        \/ ProcessImage(b)
        \/ ProcessReturn(b)

InitAppSpec ==
    /\ InitApp
    /\ op = "idle"
    /\ arg1 = <<>>
    /\ arg2 = <<>>
    /\ ret = <<>>

SpecApp == InitAppSpec /\ [][NextApp]_vars

\* C10: from the /upload that returned a batch's paths to the end of the
\* /process sent with them, the archive and the reference file of the batch
\* stay on disk, whatever other /upload requests do meanwhile; and that
\* /process scores every document of the batch against the reference file.
C10_BatchKeptUntilProcessed ==
    \A b \in Batches :
        /\ (upload[b].pc = "done" /\ process[b].pc \in {"new", "loop"})
              => folder[b].zip /\ folder[b].excel
        /\ process[b].pc # "failed"
        /\ process[b].pc = "done"
              => process[b].results = {[doc |-> d, scored |-> TRUE] : d \in Docs}

=============================================================================
